---- MODULE Spec2Model ----
(***************************************************************************)
(* The playlist route of apps/web (app/api/playlist/route.ts): one GET     *)
(* request through its awaits.  The handler validates the query            *)
(* parameters, looks the video up, authorizes the caller, lists the        *)
(* segment objects under the selected prefix, resolves a signed URL and    *)
(* the duration metadata of every listed object concurrently               *)
(* (Promise.all over async callbacks) and hands the result to              *)
(* generateM3U8Playlist.  Every action is the code that runs between two   *)
(* awaits; the collaborators (database, session, S3) answer                *)
(* nondeterministically, with a result or with an exception.               *)
(***************************************************************************)
EXTENDS Integers, Sequences, FiniteSets, TLC

\* Largest number of objects stored under one track prefix.
MaxStored == 3

VARIABLES
  req,        \* the query parameters: userId, videoId, videoType, thumbnail
  videos,     \* the rows of the videos table
  session,    \* what getCurrentUser() resolves to
  bucket,     \* the objects of the S3 bucket
  pc,         \* where the handler is suspended
  query,      \* const query (the rows selected by id)
  prefix,     \* the Prefix of the ListObjectsV2Command sent, <<>> before
  objects,    \* objects.Contents || [] of the listing
  task,       \* the async callback of every listed object
  chunksUrls, \* the argument of generateM3U8Playlist, <<>> before the call
  response,   \* the responses returned by the handler
  calls,      \* how often each collaborator has been called
  thrown,     \* the awaited calls of the handler itself that rejected
  settled     \* the callbacks in the order they resolved or rejected

vars == <<req, videos, session, bucket, pc, query, prefix, objects, task,
          chunksUrls, response, calls, thrown, settled>>

env == <<req, videos, session, bucket>>

----------------------------------------------------------------------------
(* Values *)

ParamValues == [userId : {"", "u1", "u2"},
                videoId : {"", "v1", "v2"},
                videoType : {"", "screen", "video", "audio", "camera"},
                thumbnail : {"", "true", "false"}]

\* The videos table: video v1 of owner u1, public or private; no video v2.
VideoTables == { <<[id |-> "v1", ownerId |-> "u1", public |-> p]>> : p \in BOOLEAN }

\* getCurrentUser(): null, or the user of the session.
NullUser == [isNull |-> TRUE, userId |-> ""]
User(u) == [isNull |-> FALSE, userId |-> u]
Sessions == {NullUser, User("u1"), User("u2")}

Tracks == {"screen", "video", "audio"}

\* Template literals `${userId}/${videoId}/<track>/`.
screenPrefix(userId, videoId) == [userId |-> userId, videoId |-> videoId, track |-> "screen"]
videoPrefix(userId, videoId) == [userId |-> userId, videoId |-> videoId, track |-> "video"]
audioPrefix(userId, videoId) == [userId |-> userId, videoId |-> videoId, track |-> "audio"]

\* An object's user metadata: with a duration field, or without one.
WithDuration(d) == [hasDuration |-> TRUE, duration |-> d]
WithoutDuration == [hasDuration |-> FALSE, duration |-> ""]

\* The n-th segment under a prefix; keys list in the order of n.
SegmentKey(p, n) == [prefix |-> p, n |-> n]
SegmentDuration(n) == ToString(n) \o ".5"

\* The bucket holding n segments under every track of u1/v1, those of
\* `bare` without a duration field.
BucketOf(n, bare) ==
  { [Key |-> SegmentKey([userId |-> "u1", videoId |-> "v1", track |-> t], i),
     Metadata |-> IF i \in bare THEN WithoutDuration
                  ELSE WithDuration(SegmentDuration(i))] :
      t \in Tracks, i \in 1..n }

Buckets == { BucketOf(n, bare) : n \in 0..MaxStored, bare \in SUBSET (1..MaxStored) }

----------------------------------------------------------------------------
(* The collaborators *)

\* db.select().from(videos).where(eq(videos.id, videoId))
Select(rows, videoId) == SelectSeq(rows, LAMBDA r : r.id = videoId)

\* Faulty variant: the listing is never capped.
MaxKeys_Uncapped(thumbnail) == 0

\* MaxKeys of the ListObjectsV2Command: 0 stands for undefined (no cap).
MaxKeys(thumbnail) == IF thumbnail # "" THEN 1 ELSE 0

\* ListObjectsV2: the objects under the prefix in key order, at most maxKeys
\* of them when maxKeys is given.
ListObjectsV2(objs, p, maxKeys) ==
  LET under == { o \in objs : o.Key.prefix = p }
      n == Cardinality(under)
      m == IF maxKeys > 0 /\ maxKeys < n THEN maxKeys ELSE n
  IN [ i \in 1..m |-> (CHOOSE o \in under : o.Key.n = i).Key ]

\* Validity of a signed URL in seconds.
expiresIn == 3600

\* getSignedUrl(s3Client, new GetObjectCommand({Bucket, Key}), {expiresIn})
getSignedUrl(key) == [Key |-> key, expiresIn |-> expiresIn]

\* HeadObjectCommand({Bucket, Key}): the Metadata of the object.
HeadObject(objs, key) == (CHOOSE o \in objs : o.Key = key).Metadata

\* Faulty variant: a field that is never there is read.
DurationOf_WrongField(metadata) == ""

\* metadata?.Metadata?.duration ?? ""
DurationOf(metadata) == IF metadata.hasDuration THEN metadata.duration ELSE ""

\* generateM3U8Playlist: one entry per segment, in order, with its URL and
\* its duration, 0 when the duration is not known.
generateM3U8Playlist(urls) ==
  [ i \in 1..Len(urls) |->
      [uri |-> urls[i].url,
       extinf |-> IF urls[i].duration = "" THEN "0" ELSE urls[i].duration] ]

----------------------------------------------------------------------------
(* The handler's decisions *)

\* Faulty variant: only the userId is required.
MissingIds_OnlyUserId(userId, videoId) == userId = ""

\* if (!userId || !videoId)
MissingIds(userId, videoId) == userId = "" \/ videoId = ""

\* Faulty variant: every video is treated as private.
IsPrivate_Always(video) == TRUE

\* Faulty variant: no video is treated as private.
IsPrivate_Never(video) == FALSE

\* if (video.public === false)
IsPrivate(video) == video.public = FALSE

\* Faulty variant: any signed-in user passes.
NotOwner_AnyUser(user, video) == user.isNull

\* if (!user || user.userId !== video.ownerId)
NotOwner(user, video) == user.isNull \/ user.userId # video.ownerId

\* Faulty variant: the default case falls back to the screen prefix.
SelectPrefix_NoDefault(videoType, userId, videoId) ==
  CASE videoType = "video" -> <<videoPrefix(userId, videoId)>>
    [] videoType = "audio" -> <<audioPrefix(userId, videoId)>>
    [] OTHER -> <<screenPrefix(userId, videoId)>>

\* Faulty variant: the audio case selects the video prefix.
SelectPrefix_AudioAsVideo(videoType, userId, videoId) ==
  CASE videoType = "screen" -> <<screenPrefix(userId, videoId)>>
    [] videoType = "video" -> <<videoPrefix(userId, videoId)>>
    [] videoType = "audio" -> <<videoPrefix(userId, videoId)>>
    [] OTHER -> <<>>

\* switch (videoType): the prefix selected, <<>> in the default case.
SelectPrefix(videoType, userId, videoId) ==
  CASE videoType = "screen" -> <<screenPrefix(userId, videoId)>>
    [] videoType = "video" -> <<videoPrefix(userId, videoId)>>
    [] videoType = "audio" -> <<audioPrefix(userId, videoId)>>
    [] OTHER -> <<>>

\* The responses of the handler.
ErrorResponse(status, message) ==
  [status |-> status, message |-> message, contentType |-> "", body |-> <<>>]

MissingIdsResponse == ErrorResponse(401, "userId or videoId not supplied")
NotFoundResponse == ErrorResponse(401, "Video does not exist")
NotPublicResponse == ErrorResponse(401, "Video is not public")
InvalidTypeResponse == ErrorResponse(401, "Invalid video type")
CatchResponse == ErrorResponse(500, "Error generating video URLs")

PlaylistResponse(generatedPlaylist) ==
  [status |-> 200, message |-> "", contentType |-> "application/x-mpegURL",
   body |-> generatedPlaylist]

\* The async callback of one listed object: awaiting getSignedUrl, awaiting
\* the HeadObjectCommand, resolved with {url, duration}, or rejected.
NewTask == [state |-> "awaitUrl", url |-> <<>>, duration |-> ""]

\* Faulty variant: a rejected callback is not noticed (as with allSettled).
AnyRejected_Never(t) == FALSE

\* Promise.all: rejected as soon as one callback is rejected, fulfilled when
\* all are resolved.
AnyRejected(t) == \E i \in DOMAIN t : t[i].state = "rejected"

\* Faulty variant: the callbacks' HeadObjectCommand is not awaited.
AllResolved_HeadNotAwaited(t) ==
  \A i \in DOMAIN t : t[i].state \in {"awaitHead", "resolved"}

\* Faulty variant: an empty listing is never fulfilled.
AllResolved_NonEmpty(t) ==
  t # <<>> /\ \A i \in DOMAIN t : t[i].state = "resolved"

AllResolved(t) == \A i \in DOMAIN t : t[i].state = "resolved"

\* Faulty variant: the values are collected in the order the callbacks
\* resolved (a push per callback) instead of by index.
PromiseAllValue_AsResolved(t) ==
  LET last == { i \in 1..Len(t) : \A j \in 1..Len(settled) : settled[j] # i }
      order == IF last = {} THEN settled ELSE Append(settled, CHOOSE i \in last : TRUE)
  IN [ k \in 1..Len(t) |->
         [url |-> t[order[k]].url[1], duration |-> t[order[k]].duration] ]

\* The value Promise.all is fulfilled with: the callbacks' values by index.
PromiseAllValue(t) ==
  [ i \in 1..Len(t) |-> [url |-> t[i].url[1], duration |-> t[i].duration] ]

----------------------------------------------------------------------------
(* The request *)

NoCalls == [select |-> 0, getCurrentUser |-> 0, list |-> 0, sign |-> <<>>,
            head |-> <<>>, playlist |-> 0]

Init ==
  /\ req \in ParamValues
  /\ videos \in VideoTables
  /\ session \in Sessions
  /\ bucket \in Buckets
  /\ pc = "start"
  /\ query = <<>>
  /\ prefix = <<>>
  /\ objects = <<>>
  /\ task = <<>>
  /\ chunksUrls = <<>>
  /\ response = <<>>
  /\ calls = NoCalls
  /\ thrown = {}
  /\ settled = <<>>

\* return new Response(...)
Return(r) ==
  /\ response' = Append(response, r)
  /\ pc' = "returned"

\* Lines 39-66: read the parameters, reject missing ids, else select the video.
Start ==
  /\ pc = "start"
  /\ IF MissingIds(req.userId, req.videoId)
       THEN Return(MissingIdsResponse) /\ UNCHANGED calls
       ELSE /\ pc' = "awaitQuery"
            /\ calls' = [calls EXCEPT !.select = @ + 1]
            /\ UNCHANGED response
  /\ UNCHANGED <<env, query, prefix, objects, task, chunksUrls, thrown, settled>>

\* Lines 110-160: build the prefixes, select one by videoType, send the listing.
SendListing ==
  LET p == SelectPrefix(req.videoType, req.userId, req.videoId) IN
  IF p = <<>>
    THEN Return(InvalidTypeResponse) /\ UNCHANGED <<prefix, calls>>
    ELSE /\ prefix' = p
         /\ pc' = "awaitList"
         /\ calls' = [calls EXCEPT !.list = @ + 1]
         /\ UNCHANGED response

\* Lines 66-89 (and on to 160 for a public video): the select resolves.
QueryReturns ==
  /\ pc = "awaitQuery"
  /\ query' = Select(videos, req.videoId)
  /\ IF Len(query') = 0
       THEN Return(NotFoundResponse) /\ UNCHANGED <<prefix, calls>>
       ELSE IF IsPrivate(query'[1])
         THEN /\ pc' = "awaitUser"
              /\ calls' = [calls EXCEPT !.getCurrentUser = @ + 1]
              /\ UNCHANGED <<prefix, response>>
         ELSE SendListing
  /\ UNCHANGED <<env, objects, task, chunksUrls, thrown, settled>>

\* Line 66: the select rejects; no try block encloses it.
QueryThrows ==
  /\ pc = "awaitQuery"
  /\ pc' = "threw"
  /\ thrown' = thrown \cup {"select"}
  /\ UNCHANGED <<env, query, prefix, objects, task, chunksUrls, response, calls,
                 settled>>

\* Lines 89-160: getCurrentUser resolves.
UserReturns ==
  /\ pc = "awaitUser"
  /\ IF NotOwner(session, query[1])
       THEN Return(NotPublicResponse) /\ UNCHANGED <<prefix, calls>>
       ELSE SendListing
  /\ UNCHANGED <<env, query, objects, task, chunksUrls, thrown, settled>>

\* Line 89: getCurrentUser rejects; no try block encloses it.
UserThrows ==
  /\ pc = "awaitUser"
  /\ pc' = "threw"
  /\ thrown' = thrown \cup {"getCurrentUser"}
  /\ UNCHANGED <<env, query, prefix, objects, task, chunksUrls, response, calls,
                 settled>>

\* Line 183: Promise.all is fulfilled, generateM3U8Playlist is called.
CallPlaylist(t) ==
  /\ chunksUrls' = PromiseAllValue(t)
  /\ pc' = "awaitPlaylist"

\* Lines 160-171: the listing resolves; the callback of every listed object
\* runs to its first await, the getSignedUrl call.
ListReturns ==
  /\ pc = "awaitList"
  /\ LET Contents == ListObjectsV2(bucket, prefix[1], MaxKeys(req.thumbnail))
         n == Len(Contents)
     IN /\ objects' = Contents
        /\ task' = [i \in 1..n |-> NewTask]
        /\ IF AllResolved(task')
             THEN /\ CallPlaylist(task')
                  /\ calls' = [calls EXCEPT !.sign = [i \in 1..n |-> 1],
                                             !.head = [i \in 1..n |-> 0],
                                             !.playlist = @ + 1]
             ELSE /\ pc' = "awaitAll"
                  /\ calls' = [calls EXCEPT !.sign = [i \in 1..n |-> 1],
                                             !.head = [i \in 1..n |-> 0]]
                  /\ UNCHANGED chunksUrls
  /\ UNCHANGED <<env, query, prefix, response, thrown, settled>>

\* Lines 160, 198-214: the listing rejects; the catch block answers.
ListThrows ==
  /\ pc = "awaitList"
  /\ Return(CatchResponse)
  /\ thrown' = thrown \cup {"list"}
  /\ UNCHANGED <<env, query, prefix, objects, task, chunksUrls, calls, settled>>

\* Faulty variant: a callback whose call rejected is started once more.
Reject_Retry(i) ==
  /\ task' = [task EXCEPT ![i] = NewTask]
  /\ calls' = [calls EXCEPT !.sign[i] = @ + 1]
  /\ calls.sign[i] < 2
  /\ UNCHANGED <<env, pc, query, prefix, objects, chunksUrls, response, thrown,
                 settled>>

\* Faulty variant: the catch block answers only when every callback has
\* settled (as with allSettled followed by a check).
Reject_WaitForAll(i) ==
  /\ task' = [task EXCEPT ![i].state = "rejected"]
  /\ settled' = Append(settled, i)
  /\ IF pc = "awaitAll"
        /\ \A j \in DOMAIN task : task'[j].state \in {"resolved", "rejected"}
       THEN Return(CatchResponse)
       ELSE UNCHANGED <<pc, response>>
  /\ UNCHANGED <<env, query, prefix, objects, chunksUrls, calls, thrown>>

\* Faulty variant: a rejection aborts the calls of the other callbacks.
Reject_CancelsSiblings(i) ==
  /\ task' = [j \in DOMAIN task |->
               IF j = i \/ task[j].state \in {"awaitUrl", "awaitHead"}
                 THEN [task[j] EXCEPT !.state = "rejected"]
                 ELSE task[j]]
  /\ settled' = Append(settled, i)
  /\ IF pc = "awaitAll"
       THEN Return(CatchResponse)
       ELSE UNCHANGED <<pc, response>>
  /\ UNCHANGED <<env, query, prefix, objects, chunksUrls, calls, thrown>>

\* Lines 162, 198-214: a callback rejects. While the handler awaits
\* Promise.all, that rejects and the catch block answers; afterwards nobody
\* listens.
Reject(i) ==
  /\ task' = [task EXCEPT ![i].state = "rejected"]
  /\ settled' = Append(settled, i)
  /\ IF pc = "awaitAll" /\ AnyRejected(task')
       THEN Return(CatchResponse)
       ELSE UNCHANGED <<pc, response>>
  /\ UNCHANGED <<env, query, prefix, objects, chunksUrls, calls, thrown>>

\* Faulty variant: the callback returns {url, duration: ""} without sending
\* the HeadObjectCommand.
SignedUrlReturns_NoHead(i) ==
  /\ task[i].state = "awaitUrl"
  /\ task' = [task EXCEPT ![i].state = "resolved",
                          ![i].url = <<getSignedUrl(objects[i])>>]
  /\ settled' = Append(settled, i)
  /\ IF pc = "awaitAll" /\ AllResolved(task')
       THEN /\ CallPlaylist(task')
            /\ calls' = [calls EXCEPT !.playlist = @ + 1]
       ELSE UNCHANGED <<pc, chunksUrls, calls>>
  /\ UNCHANGED <<env, query, prefix, objects, response, thrown>>

\* Lines 164-177: getSignedUrl of object i resolves; its HeadObjectCommand is
\* sent.
SignedUrlReturns(i) ==
  /\ task[i].state = "awaitUrl"
  /\ task' = [task EXCEPT ![i].state = "awaitHead",
                          ![i].url = <<getSignedUrl(objects[i])>>]
  /\ calls' = [calls EXCEPT !.head[i] = @ + 1]
  /\ UNCHANGED <<env, pc, query, prefix, objects, chunksUrls, response, thrown,
                 settled>>

\* Line 164: getSignedUrl of object i rejects.
SignedUrlThrows(i) ==
  /\ task[i].state = "awaitUrl"
  /\ Reject(i)

\* Lines 172-183: the HeadObjectCommand of object i resolves, and its callback
\* with {url, duration}; when it was the last one, Promise.all is fulfilled.
HeadReturns(i) ==
  /\ task[i].state = "awaitHead"
  /\ LET metadata == HeadObject(bucket, objects[i]) IN
       task' = [task EXCEPT ![i].state = "resolved",
                            ![i].duration = DurationOf(metadata)]
  /\ IF pc = "awaitAll" /\ AllResolved(task')
       THEN /\ CallPlaylist(task')
            /\ calls' = [calls EXCEPT !.playlist = @ + 1]
       ELSE UNCHANGED <<pc, chunksUrls, calls>>
  /\ settled' = Append(settled, i)
  /\ UNCHANGED <<env, query, prefix, objects, response, thrown>>

\* Line 172: the HeadObjectCommand of object i rejects.
HeadThrows(i) ==
  /\ task[i].state = "awaitHead"
  /\ Reject(i)

\* Lines 183-197: generateM3U8Playlist resolves; the playlist is returned.
PlaylistReturns ==
  /\ pc = "awaitPlaylist"
  /\ Return(PlaylistResponse(generateM3U8Playlist(chunksUrls)))
  /\ UNCHANGED <<env, query, prefix, objects, task, chunksUrls, calls, thrown,
                 settled>>

Next ==
  \/ Start
  \/ QueryReturns
  \/ QueryThrows
  \/ UserReturns
  \/ UserThrows
  \/ ListReturns
  \/ ListThrows
  \/ \E i \in DOMAIN task : SignedUrlReturns(i)
  \/ \E i \in DOMAIN task : SignedUrlThrows(i)
  \/ \E i \in DOMAIN task : HeadReturns(i)
  \/ \E i \in DOMAIN task : HeadThrows(i)
  \/ PlaylistReturns

Spec == Init /\ [][Next]_vars

----------------------------------------------------------------------------
(* What the properties below speak of *)

Returned == pc = "returned" /\ Len(response) = 1

ReturnedMessage(m) == Returned /\ response[1].message = m

ManifestReturned == Returned /\ response[1].status = 200

\* The row of the requested video, if the table has one.
RequestedRows == { k \in 1..Len(videos) : videos[k].id = req.videoId }
VideoExists == RequestedRows # {}
RequestedVideo == videos[CHOOSE k \in RequestedRows : TRUE]

IdsSupplied == req.userId # "" /\ req.videoId # ""

\* The session is that of the owner of the requested video.
CallerIsOwner == ~session.isNull /\ session.userId = RequestedVideo.ownerId

\* The session lookup has answered.
SessionAnswered == calls.getCurrentUser > 0 /\ pc \notin {"awaitUser", "threw"}

\* The handler is past authorization: it has reached the track selection.
PastAuthorization == calls.list > 0 \/ ReturnedMessage("Invalid video type")

NoStorageCall == calls.list = 0 /\ calls.sign = <<>> /\ calls.head = <<>>

ValidSelector == req.videoType \in {"screen", "video", "audio"}

\* The keys stored under the prefix the request selects, in key order.
StoredUnderPrefix ==
  LET under == { o \in bucket : /\ o.Key.prefix.userId = req.userId
                                /\ o.Key.prefix.videoId = req.videoId
                                /\ o.Key.prefix.track = req.videoType }
  IN [ i \in 1..Cardinality(under) |-> (CHOOSE o \in under : o.Key.n = i).Key ]

\* The listing has answered with keys.
ListingAnswered == calls.list > 0 /\ pc # "awaitList" /\ "list" \notin thrown

SomeRejected == \E i \in 1..Len(task) : task[i].state = "rejected"

----------------------------------------------------------------------------
(* Properties *)

\* C1: for a private video, the handler gets past authorization exactly when
\* the session lookup answers with the owner of the video; for any other
\* caller (no session, another user) the request ends with "Video is not
\* public", and no listing, signing or metadata call is made.
C1_PrivateOnlyOwner ==
  (IdsSupplied /\ VideoExists /\ RequestedVideo.public = FALSE) =>
    /\ PastAuthorization <=> (SessionAnswered /\ CallerIsOwner)
    /\ (SessionAnswered /\ ~CallerIsOwner) =>
          /\ response = <<NotPublicResponse>>
          /\ pc = "returned"
    /\ ~PastAuthorization => NoStorageCall
    /\ ~CallerIsOwner => NoStorageCall

C1_Witness ==
  /\ VideoExists /\ RequestedVideo.public = FALSE
  /\ session = User("u2")
  /\ ReturnedMessage("Video is not public")
  /\ NoStorageCall

\* C2: for a video that exists and is public, "Video is not public" is never
\* returned, whoever the caller is.
C2_PublicNeverForbidden ==
  (VideoExists /\ RequestedVideo.public = TRUE) =>
    \A k \in 1..Len(response) : response[k].message # "Video is not public"

C2_Witness ==
  /\ VideoExists /\ RequestedVideo.public = TRUE
  /\ session = User("u2")
  /\ ManifestReturned
  /\ Len(response[1].body) = 2

\* C3: the segments handed to generateM3U8Playlist are as many as the keys of
\* the listing and in the same order, in whatever order the signing and
\* metadata calls completed.
C3_ListingOrder ==
  calls.playlist > 0 =>
    /\ Len(chunksUrls) = Len(objects)
    /\ \A i \in 1..Len(objects) : chunksUrls[i].url.Key = objects[i]
    /\ ManifestReturned =>
          /\ Len(response[1].body) = Len(objects)
          /\ \A i \in 1..Len(objects) : response[1].body[i].uri.Key = objects[i]

C3_Witness ==
  /\ ManifestReturned
  /\ Len(objects) = 3
  /\ settled = <<3, 1, 2>>
  /\ \A i \in 1..3 : response[1].body[i].uri.Key.n = i

\* C4: when the listing fails, or the signing or the metadata call of one
\* listed key fails, the request ends with status 500 and "Error generating
\* video URLs"; generateM3U8Playlist is not called and no playlist is returned.
C4_AllOrNothing ==
  ("list" \in thrown \/ SomeRejected) =>
    /\ pc = "returned"
    /\ Len(response) = 1
    /\ response[1].status = 500
    /\ response[1].message = "Error generating video URLs"
    /\ response[1].body = <<>>
    /\ calls.playlist = 0
    /\ chunksUrls = <<>>

C4_Witness ==
  /\ Len(task) = 3
  /\ task[1].state = "resolved"
  /\ task[2].state = "rejected" /\ calls.head[2] = 1
  /\ task[3].state = "resolved"
  /\ ReturnedMessage("Error generating video URLs")

\* The metadata stored with a listed key.
StoredMetadata(key) == (CHOOSE o \in bucket : o.Key = key).Metadata

\* C5: a key whose metadata has no duration field does not fail the
\* resolution: its segment carries the empty duration (rendered as 0), the
\* playlist has one entry per listed key, and every other entry has the
\* duration of its own metadata.
C5_MissingDuration ==
  calls.playlist > 0 =>
    /\ Len(chunksUrls) = Len(objects)
    /\ \A i \in 1..Len(objects) :
         LET md == StoredMetadata(objects[i]) IN
         /\ chunksUrls[i].duration = (IF md.hasDuration THEN md.duration ELSE "")
         /\ ManifestReturned =>
               /\ Len(response[1].body) = Len(objects)
               /\ response[1].body[i].extinf =
                     (IF md.hasDuration THEN md.duration ELSE "0")

C5_Witness ==
  /\ ManifestReturned
  /\ Len(objects) = 3
  /\ ~StoredMetadata(objects[2]).hasDuration
  /\ chunksUrls[2].duration = ""
  /\ response[1].body[1].extinf = "1.5"
  /\ response[1].body[2].extinf = "0"
  /\ response[1].body[3].extinf = "3.5"

\* C6: with the thumbnail parameter set the listing is capped to one key:
\* signing and metadata calls are made for at most one key, and when keys are
\* stored under the prefix the playlist has exactly one entry, the first key;
\* without the parameter every stored key is listed and resolved.
C6_ThumbnailCap ==
  /\ req.thumbnail # "" =>
       /\ Len(objects) <= 1
       /\ Len(calls.sign) <= 1
       /\ Len(calls.head) <= 1
       /\ (ListingAnswered /\ Len(StoredUnderPrefix) >= 1) =>
             objects = <<StoredUnderPrefix[1]>>
       /\ (ManifestReturned /\ Len(StoredUnderPrefix) >= 1) =>
             /\ Len(response[1].body) = 1
             /\ response[1].body[1].uri.Key = StoredUnderPrefix[1]
  /\ req.thumbnail = "" =>
       /\ ListingAnswered =>
             /\ objects = StoredUnderPrefix
             /\ Len(calls.sign) = Len(StoredUnderPrefix)
             /\ \A i \in 1..Len(calls.sign) : calls.sign[i] = 1
       /\ ManifestReturned =>
             /\ Len(response[1].body) = Len(StoredUnderPrefix)
             /\ \A i \in 1..Len(StoredUnderPrefix) :
                  response[1].body[i].uri.Key = StoredUnderPrefix[i]

C6_Witness ==
  /\ req.thumbnail = "true"
  /\ Len(StoredUnderPrefix) = 3
  /\ ManifestReturned
  /\ Len(response[1].body) = 1
  /\ response[1].body[1].uri.Key.n = 1
  /\ calls.sign = <<1>> /\ calls.head = <<1>>

\* C7: when userId or videoId is missing or empty, the handler returns
\* "userId or videoId not supplied" and has called no collaborator: no
\* select, no session lookup, no listing, signing or metadata call.
C7_MissingIdsNoCalls ==
  (req.userId = "" \/ req.videoId = "") =>
    /\ calls = NoCalls
    /\ pc \in {"start", "returned"}
    /\ pc = "returned" => response = <<MissingIdsResponse>>

C7_Witness ==
  /\ req.userId = "u1" /\ req.videoId = ""
  /\ pc = "returned"
  /\ response = <<MissingIdsResponse>>
  /\ calls = NoCalls

\* C8: "Invalid video type" is returned only after the video was found and
\* the caller authorized, and an unrecognized videoType never leads to a
\* listing, signing or metadata call; for an unknown video the answer is
\* "Video does not exist" and for a private video and a caller who is not
\* its owner "Video is not public", whatever the videoType.
C8_SelectorCheckedLast ==
  /\ ReturnedMessage("Invalid video type") =>
       /\ ~ValidSelector
       /\ calls.select = 1 /\ Len(query) = 1
       /\ query[1].public \/ (calls.getCurrentUser = 1 /\ CallerIsOwner)
  /\ ~ValidSelector =>
       /\ NoStorageCall
       /\ (Returned /\ IdsSupplied /\ ~VideoExists) =>
             response = <<NotFoundResponse>>
       /\ (Returned /\ IdsSupplied /\ VideoExists /\ ~RequestedVideo.public
             /\ ~CallerIsOwner) =>
             response = <<NotPublicResponse>>
       /\ (Returned /\ IdsSupplied /\ VideoExists
             /\ (RequestedVideo.public \/ CallerIsOwner)) =>
             response = <<InvalidTypeResponse>>

C8_Witness ==
  /\ req.videoType = "camera"
  /\ VideoExists /\ ~RequestedVideo.public
  /\ CallerIsOwner
  /\ calls.select = 1 /\ calls.getCurrentUser = 1
  /\ response = <<InvalidTypeResponse>>
  /\ NoStorageCall

\* The error kind a response stands for, by its message.
KindOf(r) ==
  CASE r.message \in {"userId or videoId not supplied", "Invalid video type"}
         -> "ValidationError"
    [] r.message = "Video does not exist" -> "NotFoundError"
    [] r.message = "Video is not public" -> "ForbiddenError"
    [] r.message = "Error generating video URLs" -> "UpstreamError"
    [] OTHER -> "Success"

ErrorResponses == {MissingIdsResponse, NotFoundResponse, NotPublicResponse,
                   InvalidTypeResponse, CatchResponse}

\* The keys a listing for the request answers with.
ExpectedListing ==
  IF req.thumbnail # "" /\ Len(StoredUnderPrefix) > 1
    THEN <<StoredUnderPrefix[1]>>
    ELSE StoredUnderPrefix

\* The response is that of the first stage that fails, in the order: ids,
\* video lookup, authorization, videoType, segment resolution; the playlist
\* is returned with status 200 only when none failed.
C9_FirstFailingStage ==
  Returned =>
    LET r == response[1] IN
    IF ~IdsSupplied THEN r = MissingIdsResponse
    ELSE IF ~VideoExists THEN r = NotFoundResponse
    ELSE IF ~RequestedVideo.public /\ ~CallerIsOwner THEN r = NotPublicResponse
    ELSE IF ~ValidSelector THEN r = InvalidTypeResponse
    ELSE IF "list" \in thrown \/ SomeRejected THEN r = CatchResponse
    ELSE /\ r.status = 200
         /\ r.contentType = "application/x-mpegURL"
         /\ Len(r.body) = Len(ExpectedListing)
         /\ \A i \in 1..Len(r.body) :
              LET md == StoredMetadata(ExpectedListing[i]) IN
              /\ r.body[i].uri.Key = ExpectedListing[i]
              /\ r.body[i].extinf = (IF md.hasDuration THEN md.duration ELSE "0")

\* The status of the response returned tells its error kind from every other
\* error kind.
C9_StatusTellsKind ==
  Returned =>
    \A e \in ErrorResponses :
      KindOf(e) # KindOf(response[1]) => e.status # response[1].status

\* C9: the outcome of a request is the error of the first stage that fails
\* (missing ids, video lookup, authorization, videoType, segment resolution),
\* each error kind with a status of its own, and the playlist with status 200
\* and the playlist content type only when every stage succeeded.
C9_OutcomeByStage == C9_FirstFailingStage /\ C9_StatusTellsKind

\* C10: every failure of a collaborator, the select and the session lookup
\* included, ends the request with an error response of the handler; no
\* exception escapes the handler.
C10_NoUncaughtFault ==
  /\ pc # "threw"
  /\ (thrown # {} \/ SomeRejected) =>
       /\ Returned
       /\ response[1] \in ErrorResponses

\* C11: generateM3U8Playlist is called at most once per request, and only
\* when the signing call and the metadata call of every listed key have both
\* completed successfully: never while a call of a key is in flight or has
\* failed.
C11_FanInBarrier ==
  /\ calls.playlist <= 1
  /\ calls.playlist = 1 =>
       /\ Len(task) = Len(objects)
       /\ Len(chunksUrls) = Len(objects)
       /\ \A i \in 1..Len(objects) :
            /\ task[i].state = "resolved"
            /\ calls.sign[i] = 1
            /\ calls.head[i] = 1
            /\ Len(task[i].url) = 1

C11_Witness ==
  /\ pc = "awaitPlaylist"
  /\ calls.playlist = 1
  /\ Len(objects) = 3
  /\ settled = <<2, 3, 1>>
  /\ \A i \in 1..3 : task[i].state = "resolved"

\* The handler awaits nothing and has not started: it has ended.
HandlerEnded == pc \notin {"start", "awaitQuery", "awaitUser", "awaitList",
                           "awaitAll", "awaitPlaylist"}

ErrorReturned == Returned /\ response[1] \in ErrorResponses

\* C12: every request ends in exactly one response, the playlist or one of
\* the error responses, once the calls it made have completed; and after an
\* error response no further collaborator call is made and no playlist is
\* returned.
C12_OneTerminalResponse ==
  /\ [](Len(response) <= 1)
  /\ [](HandlerEnded => (ManifestReturned \/ ErrorReturned))
  /\ [][ErrorReturned => (calls' = calls /\ response' = response)]_vars

\* C13: nothing is retried: the select, the session lookup and the listing
\* are each called at most once per request, and for every listed key the
\* signing call and the metadata call are each made at most once, also after
\* that call or the call of another key has failed.
C13_NoRetry ==
  /\ calls.select <= 1
  /\ calls.getCurrentUser <= 1
  /\ calls.list <= 1
  /\ Len(calls.sign) = Len(objects) /\ Len(calls.head) = Len(objects)
  /\ \A i \in 1..Len(objects) :
       /\ calls.sign[i] <= 1
       /\ calls.head[i] <= 1
       /\ \A j \in 1..Len(objects) : objects[i] = objects[j] => i = j

C13_Witness ==
  /\ Len(task) = 2
  /\ task[1].state = "rejected" /\ task[2].state = "rejected"
  /\ settled = <<2, 1>>
  /\ calls.select = 1 /\ calls.getCurrentUser = 1 /\ calls.list = 1
  /\ calls.sign = <<1, 1>> /\ calls.head = <<1, 0>>
  /\ ErrorReturned

\* The handler has come to the videoType switch: the video was found and the
\* caller let through.
SwitchReached ==
  /\ IdsSupplied /\ VideoExists
  /\ pc \notin {"start", "awaitQuery", "awaitUser", "threw"}
  /\ RequestedVideo.public \/ CallerIsOwner

\* C14: the videoType switch accepts exactly screen, video and audio and
\* rejects every other value, the empty one included; the accepted values
\* select three different prefixes userId/videoId/<videoType>/; and whether
\* a value is accepted depends on nothing but the value.
C14_TrackPrefix ==
  /\ calls.list > 0 =>
       /\ ValidSelector
       /\ prefix = <<[userId |-> req.userId, videoId |-> req.videoId,
                      track |-> req.videoType]>>
  /\ ReturnedMessage("Invalid video type") => (~ValidSelector /\ prefix = <<>>)
  /\ SwitchReached =>
       /\ ValidSelector <=> calls.list = 1
       /\ ~ValidSelector <=> ReturnedMessage("Invalid video type")

C14_Witness ==
  /\ req.videoType = "audio" /\ req.userId = "u2" /\ req.thumbnail = "true"
  /\ session = NullUser
  /\ calls.list = 1
  /\ prefix = <<[userId |-> "u2", videoId |-> "v1", track |-> "audio"]>>

\* The call of a listed key is in flight.
InFlight(i) == task[i].state \in {"awaitUrl", "awaitHead"}

\* The segment resolution has ended: the playlist is being built, or a
\* response was returned after the listing answered.
ResolutionEnded == calls.playlist > 0 \/ (Returned /\ ListingAnswered)

\* C15 as claimed: the segment resolution ends, with success or with
\* failure, only when the resolution of every listed key has ended: no
\* signing or metadata call is in flight when the handler goes on to the
\* playlist or returns the error.
C15_EndsWhenAllSettled ==
  ResolutionEnded => \A i \in 1..Len(task) : ~InFlight(i)

\* C15, amended: the segment resolution ends with success only when every
\* listed key is resolved, and with failure as soon as the first call of a
\* key fails, whether or not calls of other keys are still in flight; the
\* handler waits exactly as long as calls are in flight and none has failed.
C15_SuccessWaitsFailureDoesNot ==
  /\ calls.playlist > 0 => \A i \in 1..Len(task) : ~InFlight(i)
  /\ pc = "awaitAll" =>
       /\ ~SomeRejected
       /\ \E i \in 1..Len(task) : InFlight(i)
  /\ (Returned /\ ListingAnswered /\ ~ManifestReturned) =>
       /\ SomeRejected
       /\ response = <<CatchResponse>>

C15_Witness ==
  /\ response = <<CatchResponse>>
  /\ Len(task) = 3
  /\ settled = <<2>>
  /\ task[2].state = "rejected"
  /\ task[1].state = "awaitHead"
  /\ task[3].state = "awaitUrl"

\* C16 as claimed: once the listing has answered with N keys, the signing
\* call and the metadata call of every key are issued together, none waiting
\* for another call to complete.
C16_AllCallsAtOnce ==
  ListingAnswered =>
    \A i \in 1..Len(objects) : calls.sign[i] = 1 /\ calls.head[i] = 1

\* C16, amended: once the listing has answered with N keys, the N signing
\* calls are all issued before any of them completes; the metadata call of a
\* key is issued when, and only when, the signing call of that same key has
\* completed successfully, whatever the state of the other keys.
C16_SignThenHeadPerKey ==
  ListingAnswered =>
    /\ Len(calls.sign) = Len(objects) /\ Len(calls.head) = Len(objects)
    /\ \A i \in 1..Len(objects) :
         /\ calls.sign[i] = 1
         /\ calls.head[i] = (IF Len(task[i].url) = 1 THEN 1 ELSE 0)
         /\ task[i].state = "awaitUrl" => calls.head[i] = 0
         /\ task[i].state \in {"awaitHead", "resolved"} => calls.head[i] = 1

C16_Witness ==
  /\ pc = "awaitAll"
  /\ Len(objects) = 3
  /\ settled = <<>>
  /\ calls.sign = <<1, 1, 1>>
  /\ calls.head = <<0, 1, 0>>
  /\ task[2].state = "awaitHead"

\* C17: the failure of the call of one key does not cancel the calls of the
\* other keys: they stay in flight and may complete afterwards, and what
\* they do then changes neither the response returned nor the number of
\* responses.
C17_NoCancellation ==
  /\ [][\A i, j \in 1..Len(task) :
          (/\ Len(task') = Len(task)
           /\ i # j
           /\ task[i].state # "rejected" /\ task'[i].state = "rejected")
          => task'[j] = task[j]]_vars
  /\ [][Returned => (response' = response /\ pc' = pc)]_vars
  /\ [](Len(response) <= 1)

C17_Witness ==
  /\ response = <<CatchResponse>>
  /\ Len(task) = 3
  /\ settled = <<1, 3, 2>>
  /\ task[1].state = "rejected"
  /\ task[3].state = "resolved"
  /\ task[2].state = "rejected"

\* C18: whenever a listing is sent, the prefix listed is that of the owner of
\* the video that was looked up and authorized, and of that video.
C18_PrefixOfOwner ==
  calls.list > 0 =>
    /\ Len(query) = 1
    /\ prefix[1].userId = query[1].ownerId
    /\ prefix[1].videoId = query[1].id

\* C19: getCurrentUser is called only for a request whose video exists and is
\* private, and then exactly once; for a public video, an unknown video and
\* a request with missing ids it is never called.
C19_SessionOnlyForPrivate ==
  /\ calls.getCurrentUser <= 1
  /\ calls.getCurrentUser = 1 <=>
       /\ IdsSupplied /\ VideoExists /\ ~RequestedVideo.public
       /\ pc \notin {"start", "awaitQuery"}
       /\ "select" \notin thrown

C19_Witness ==
  /\ VideoExists /\ ~RequestedVideo.public
  /\ calls.getCurrentUser = 1
  /\ CallerIsOwner
  /\ ManifestReturned
  /\ Len(response[1].body) = 3

\* C20: when the listing of an authorized request with a valid videoType
\* answers with no key, no signing or metadata call is made,
\* generateM3U8Playlist is called with the empty sequence and the response is
\* the (empty) playlist with status 200, not an error; also with the
\* thumbnail parameter set.
C20_EmptyListing ==
  (ListingAnswered /\ objects = <<>>) =>
    /\ calls.sign = <<>> /\ calls.head = <<>> /\ task = <<>>
    /\ calls.playlist = 1
    /\ chunksUrls = <<>>
    /\ pc \in {"awaitPlaylist", "returned"}
    /\ pc = "returned" =>
         /\ Len(response) = 1
         /\ response[1].status = 200
         /\ response[1].contentType = "application/x-mpegURL"
         /\ response[1].body = <<>>

C20_Witness ==
  /\ req.thumbnail = "true"
  /\ Len(StoredUnderPrefix) = 0
  /\ ListingAnswered /\ objects = <<>>
  /\ calls.playlist = 1
  /\ ManifestReturned
  /\ response[1].body = <<>>

====
